---------------------------- MODULE Spec2Model ----------------------------
(***************************************************************************)
(* Candlestick ingestion of crypto_bot: the paginated fetch loop of        *)
(* BinanceDataLoader.get_klines, the resume point and the bulk append of   *)
(* process_trading_pairs, and the store operations of PostgresOperations.  *)
(*                                                                         *)
(* Times are epoch milliseconds.  A bar is [open_time, close_time]; a      *)
(* stored row adds the trading_pair_id.  The exchange is a list of bars    *)
(* per configured pair that only grows at its end.                         *)
(***************************************************************************)
EXTENDS Integers, Sequences, FiniteSets, Bags, TLC

(* ------------------------------ bounds -------------------------------- *)

\* Page size of one kline request; stands for `limit = 500`.
PageLimit == 2

\* Longest exchange history of a pair in the ingestion specification.
MaxBars == 4

\* Longest exchange history in the specification of the fetch loop alone.
MaxFetchBars == 6

\* Longest target interval string requested from the query API.
MaxTargetLen == 3

\* Most 1m bars of a pair in the store that the query API aggregates.
MaxAggBars == 5

(* --------------------------- configuration ---------------------------- *)

\* A string is the sequence of its characters: "15m" is << "1", "5", "m" >>.
Digits == << "0", "1", "2", "3", "4", "5", "6", "7", "8", "9" >>

IsDigit(c) == \E k \in 1..Len(Digits) : Digits[k] = c

DigitValue(c) == (CHOOSE k \in 1..Len(Digits) : Digits[k] = c) - 1

\* int(s) of a non-empty string of decimal digits.
RECURSIVE int(_)
int(s) ==
  IF Len(s) = 1 THEN DigitValue(s[1])
  ELSE 10 * int(SubSeq(s, 1, Len(s) - 1)) + DigitValue(s[Len(s)])

\* None, a value that is no string.
None == << "None" >>

\* The characters that occur in the modelled strings, in code point order.
Chars ==
  << "0", "1", "2", "3", "4", "5", "6", "7", "8", "9", "H", "M",
     "d", "h", "m", "w", "x" >>

ord(c) == CHOOSE k \in 1..Len(Chars) : Chars[k] = c

\* a < b for strings: the order of ORDER BY on a text column.
RECURSIVE StrLess(_, _)
StrLess(a, b) ==
  IF b = << >> THEN FALSE
  ELSE IF a = << >> THEN TRUE
  ELSE IF a[1] # b[1] THEN ord(a[1]) < ord(b[1])
  ELSE StrLess(Tail(a), Tail(b))

\* trading_pairs.yml: the configured pairs, in processing order.
Pairs ==
  << [symbol |-> "BTCUSDT", interval |-> << "1", "m" >>,
      start_date |-> "1 Jan, 1970"],
     [symbol |-> "ETHUSDT", interval |-> << "2", "m" >>,
      start_date |-> "1 Jan, 1970 00:02" ] >>

PairIdx == 1..Len(Pairs)

source_name == "Binance"

\* binance.helpers.date_to_milliseconds on the configured start dates.
date_to_milliseconds(d) ==
  CASE d = "1 Jan, 1970"       -> 0
    [] d = "1 Jan, 1970 00:02" -> 120000

seconds_per_unit(u) ==
  CASE u = "s" -> 1
    [] u = "m" -> 60
    [] u = "h" -> 60 * 60
    [] u = "d" -> 24 * 60 * 60
    [] u = "w" -> 7 * 24 * 60 * 60

\* `int(interval[:-1]) * seconds_per_unit[interval[-1]] * 1000`, None on a
\* ValueError (prefix not a decimal integer) or KeyError (unknown unit).
interval_to_milliseconds(interval) ==
  IF /\ Len(interval) >= 2
     /\ \A k \in 1..(Len(interval) - 1) : IsDigit(interval[k])
     /\ interval[Len(interval)] \in {"s", "m", "h", "d", "w"}
  THEN int(SubSeq(interval, 1, Len(interval) - 1))
         * seconds_per_unit(interval[Len(interval)]) * 1000
  ELSE None

\* Open times at which the exchange may list the first bar of a pair.
Listings == {0, 180000}

\* Start timestamps handed to get_klines when the loop is checked alone.
FetchStarts == {0, 60000, 120000, 240000}

VARIABLES
  history,            \* exchange: pair index -> sequence of bars, ascending
  pre_listing_empty,  \* exchange answers a start before the first bar with an empty page
  sources,            \* table sources: set of [id, name]
  trading_pairs,      \* table trading_pairs: set of [id, symbol, interval, source_id]
  candlesticks,       \* table candlesticks, committed rows: bag of rows
  pending,            \* rows written by the open transaction, not committed
  copy_result,        \* how the COPY of the current pair ended: none, ok, conflict, store_failure
  pc,                 \* position of the loader
  i,                  \* index of the pair being processed
  trading_pair_id,
  start_ts,           \* cursor of the fetch loop
  fetch_start,        \* start_ts as passed to load_candlestick_data
  output_data,
  idx,
  symbol_existed,
  requests,           \* kline requests of the current fetch: [startTime, n, bars],
                      \* bars the length of the exchange history at the request
  log,                \* pair index -> set of reports of the current run
  lastDone,           \* pair index -> exchange length seen and row count left by the
                      \* last run that completed the pair cleanly
  txn_aborted,        \* the loader's connection is in a failed transaction: every
                      \* statement fails until a rollback
  cpc,                \* concurrent callers of get_or_create_trading_pair: position
  carg,               \* caller -> index of the pair it was called for
  c_source_id,        \* caller -> source id it holds
  c_pair_id,          \* caller -> id it returned
  uncommitted,        \* caller -> trading_pairs rows of its open transaction
  api_pc,             \* position of a GET /candlesticks/{symbol}/{target_interval}
  path_symbol,        \* path parameter symbol
  target_interval,    \* path parameter
  available_intervals,
  chosen_interval,
  api_error,          \* exception raised by the request: none or its kind
  conn_state,         \* the request's store connection: none, open, closed
  queries,            \* statements the request has executed, in order
  data,               \* result of get_candlestick_data
  files,              \* JSON-file loader: the files, a set of [path, content]
  jpc,                \* JSON-file loader: position
  jpair,              \* JSON-file loader: index of the pair being processed
  jstart_ts,          \* JSON-file loader: start_ts of load_candlestick_data
  klines              \* JSON-file loader: result of get_klines

vars == << history, pre_listing_empty, sources, trading_pairs, candlesticks,
           pending, copy_result, pc, i, trading_pair_id, start_ts, fetch_start, output_data,
           idx, symbol_existed, requests, log, lastDone, txn_aborted,
           cpc, carg, c_source_id, c_pair_id, uncommitted,
           api_pc, path_symbol, target_interval, available_intervals,
           chosen_interval, api_error, conn_state, queries, data,
           files, jpc, jpair, jstart_ts, klines >>

jsonVars == << files, jpc, jpair, jstart_ts, klines >>

concVars == << cpc, carg, c_source_id, c_pair_id, uncommitted >>

apiVars == << api_pc, path_symbol, target_interval, available_intervals,
              chosen_interval, api_error, conn_state, queries, data >>

loaderVars == << history, pre_listing_empty, candlesticks, pending, copy_result,
                 pc, i, trading_pair_id, fetch_start, start_ts, output_data,
                 idx, symbol_existed, requests, log, lastDone, txn_aborted >>

\* Processes that call get_or_create_trading_pair on connections of their own.
Callers == {1, 2}

dbVars    == << sources, trading_pairs, candlesticks, pending, copy_result >>
fetchVars == << start_ts, output_data, idx, symbol_existed, requests >>

(* ------------------------------ helpers ------------------------------- *)

Last(s) == s[Len(s)]

Prefix(s, n) == SubSeq(s, 1, IF n < Len(s) THEN n ELSE Len(s))

timeframe(p) == interval_to_milliseconds(Pairs[p].interval)

Bar(o, c) == [open_time |-> o, close_time |-> c]

Row(id, b) == [trading_pair_id |-> id, open_time |-> b.open_time,
               close_time |-> b.close_time]

SeqToBag(s) == [r \in {s[k] : k \in 1..Len(s)} |->
                  Cardinality({k \in 1..Len(s) : s[k] = r})]

\* Committed rows of one trading pair.
RowsOf(id) == {r \in BagToSet(candlesticks) : r.trading_pair_id = id}

RowCount(id) ==
  LET rs == RowsOf(id)
      RECURSIVE Sum(_)
      Sum(S) == IF S = {} THEN 0
                ELSE LET r == CHOOSE x \in S : TRUE
                     IN CopiesIn(r, candlesticks) + Sum(S \ {r})
  IN Sum(rs)

\* The id of the trading_pairs row of configured pair p, 0 when there is none.
PairId(p) ==
  LET rows == {t \in trading_pairs : /\ t.symbol = Pairs[p].symbol
                                     /\ t.interval = Pairs[p].interval}
  IN IF rows = {} THEN 0 ELSE (CHOOSE t \in rows : TRUE).id


(* ------------------------------ exchange ------------------------------ *)

\* Bars the exchange may publish next for pair p: the first bar opens at a
\* listing time, every later bar one interval after the previous one.  The
\* first bar may carry close_time 0 (a close time the exchange has not set).
NextBars(p) ==
  IF history[p] = << >>
  THEN {Bar(l, l + timeframe(p) - 1) : l \in Listings} \cup {Bar(0, 0)}
  ELSE {Bar(Last(history[p]).open_time + timeframe(p),
            Last(history[p]).open_time + 2 * timeframe(p) - 1)}

\* The exchange publishes one more bar of pair p.
SourceGrow(p, bound) ==
  /\ Len(history[p]) < bound
  /\ \E b \in NextBars(p) : history' = [history EXCEPT ![p] = Append(@, b)]

\* client.get_klines(symbol, interval, limit, startTime): the first `limit`
\* bars that open at or after startTime.
get_klines_page(h, startTime, limit) ==
  IF h # << >> /\ pre_listing_empty /\ startTime < h[1].open_time
  THEN << >>
  ELSE Prefix(SelectSeq(h, LAMBDA b : b.open_time >= startTime), limit)

\* Each bar closes one millisecond before the next interval opens.
Contiguous(p) ==
  \A k \in 1..Len(history[p]) :
     history[p][k].close_time = history[p][k].open_time + timeframe(p) - 1

(* ------------------------- get_klines, the loop ------------------------ *)

\* The loop left after every page, full or not.
LoopExit_always(n, limit) == n <= limit

\* `if len(temp_data) < limit: break`
LoopExit(n, limit) == n < limit

\* `start_ts = temp_data[-1][0] + timeframe`
NextStart(temp_data, tf) == Last(temp_data).open_time + tf

\* The loop sleeps after every pass.
Sleeps_always(n) == TRUE

\* `if idx % 3 == 0: time.sleep(1)`
Sleeps(n) == n % 3 = 0

\* One pass of `while True`: a request and the handling of its page.  The
\* request may fail; temp_data[-1] of an empty page raises IndexError.  A
\* pass that does not leave the loop may end with a sleep of one second,
\* noted with its request.
GetKlinesRequest(request_fails) ==
  /\ pc = "fetch"
  /\ LET temp_data == get_klines_page(history[i], start_ts, PageLimit)
         existed   == symbol_existed \/ Len(temp_data) > 0
     IN \/ /\ request_fails
           /\ pc' = "raised"
           /\ UNCHANGED fetchVars
        \/ /\ ~request_fails
           /\ requests' = Append(requests,
                                 [startTime |-> start_ts, n |-> Len(temp_data),
                                  bars |-> Len(history[i]),
                                  sleep |-> /\ ~(existed /\ temp_data = << >>)
                                            /\ ~LoopExit(Len(temp_data),
                                                         PageLimit)
                                            /\ Sleeps(idx + 1)])
           /\ symbol_existed' = existed
           /\ IF existed /\ temp_data = << >>
              THEN /\ pc' = "raised"
                   /\ UNCHANGED << start_ts, output_data, idx >>
              ELSE /\ IF existed
                      THEN /\ output_data' = output_data \o temp_data
                           /\ start_ts' = NextStart(temp_data, timeframe(i))
                      ELSE /\ output_data' = output_data
                           /\ start_ts' = start_ts + timeframe(i)
                   /\ idx' = idx + 1
                   /\ pc' = IF LoopExit(Len(temp_data), PageLimit)
                            THEN "returned" ELSE "fetch"
  /\ UNCHANGED << concVars, apiVars, jsonVars, history, pre_listing_empty, dbVars, i, trading_pair_id,
                  fetch_start, log, lastDone, txn_aborted >>

(* ------------------------------- store -------------------------------- *)

\* A table without the unique constraint.
UniqueViolation_none(stored, row) == FALSE

\* candlesticks is unique on (trading_pair_id, open_time).
UniqueViolation(stored, row) ==
  \E r \in stored : /\ r.trading_pair_id = row.trading_pair_id
                    /\ r.open_time = row.open_time

\* Index of the first row of the batch that COPY rejects, 0 when none.
FirstConflict(rows) ==
  LET bad == {k \in 1..Len(rows) :
                UniqueViolation(BagToSet(candlesticks)
                                  \cup {rows[j] : j \in 1..(k - 1)}, rows[k])}
  IN IF bad = {} THEN 0 ELSE CHOOSE k \in bad : \A m \in bad : k <= m

\* connection.commit() and connection.rollback() of the open transaction.
Commit(stored, written) == stored (+) SeqToBag(written)

\* The rows written before the failure are kept.
Rollback_keeps(stored, written) == stored (+) SeqToBag(written)

Rollback(stored, written) == stored

\* SELECT id FROM sources WHERE name = ..., else INSERT ... RETURNING id.
get_or_create_source(tbl, name) ==
  LET found == {s \in tbl : s.name = name}
  IN IF found # {}
     THEN [id |-> (CHOOSE s \in found : TRUE).id, tbl |-> tbl]
     ELSE [id |-> Cardinality(tbl) + 1,
           tbl |-> tbl \cup {[id |-> Cardinality(tbl) + 1, name |-> name]}]

\* The pair is inserted without looking it up.
get_or_create_trading_pair_insert(tbl, symbol, interval, source_id) ==
  [id |-> Cardinality(tbl) + 1,
   tbl |-> tbl \cup {[id |-> Cardinality(tbl) + 1, symbol |-> symbol,
                       interval |-> interval, source_id |-> source_id]}]

\* SELECT id FROM trading_pairs WHERE symbol, interval, source_id; else INSERT.
get_or_create_trading_pair(tbl, symbol, interval, source_id) ==
  LET found == {t \in tbl : /\ t.symbol = symbol
                            /\ t.interval = interval
                            /\ t.source_id = source_id}
  IN IF found # {}
     THEN [id |-> (CHOOSE t \in found : TRUE).id, tbl |-> tbl]
     ELSE [id |-> Cardinality(tbl) + 1,
           tbl |-> tbl \cup {[id |-> Cardinality(tbl) + 1, symbol |-> symbol,
                               interval |-> interval, source_id |-> source_id]}]

\* SELECT MAX(close_time): {} is None.  `if result and result[0]` takes a
\* maximum of 0 for no result.
get_last_close_time(id) ==
  LET closes == {r.close_time : r \in RowsOf(id)}
      result == IF closes = {} THEN {}
                ELSE {CHOOSE c \in closes : \A d \in closes : d <= c}
  IN IF result # {} /\ result # {0} THEN result ELSE {}

\* `SELECT DISTINCT interval FROM trading_pairs WHERE symbol = %s ORDER BY
\* interval`, as the list of the intervals.
RECURSIVE OrderBy(_)
OrderBy(strs) ==
  IF strs = {} THEN << >>
  ELSE LET first == CHOOSE a \in strs : \A b \in strs \ {a} : StrLess(a, b)
       IN << first >> \o OrderBy(strs \ {first})

get_available_intervals_for_trading_pair(tbl, symbol) ==
  OrderBy({t.interval : t \in {r \in tbl : r.symbol = symbol}})

\* The resume point one millisecond late.
ResumePoint_late(last_close_time, start_date) ==
  IF last_close_time # {} /\ last_close_time # {0}
  THEN (CHOOSE c \in last_close_time : TRUE) + 2
  ELSE date_to_milliseconds(start_date)

\* `if last_close_time: start_ts = last_close_time + 1
\*  else: start_ts = date_to_milliseconds(start_date)`
ResumePoint(last_close_time, start_date) ==
  IF last_close_time # {} /\ last_close_time # {0}
  THEN (CHOOSE c \in last_close_time : TRUE) + 1
  ELSE date_to_milliseconds(start_date)


(* ------------------------ process_trading_pairs ------------------------ *)

NoFetch ==
  /\ start_ts' = 0
  /\ output_data' = << >>
  /\ idx' = 0
  /\ symbol_existed' = FALSE
  /\ requests' = << >>

\* `for pair in pairs`: on to the next pair, or the end of the run, where
\* __main__ closes the connection.
NextPair ==
  /\ IF i < Len(Pairs)
     THEN i' = i + 1 /\ pc' = "status"
     ELSE i' = 1 /\ pc' = "idle"
  /\ trading_pair_id' = 0
  /\ fetch_start' = 0
  /\ copy_result' = "none"
  /\ txn_aborted' = IF i < Len(Pairs) THEN txn_aborted ELSE FALSE
  /\ NoFetch

\* A run of the loader starts with the first configured pair.
StartRun ==
  /\ pc = "idle"
  /\ pc' = "status"
  /\ i' = 1
  /\ log' = [p \in PairIdx |-> {}]
  /\ UNCHANGED << concVars, apiVars, jsonVars, history, pre_listing_empty, dbVars, trading_pair_id,
                  fetch_start, fetchVars, lastDone, txn_aborted >>

\* The pair is processed although the status is not 0.
Continues_never(status) == FALSE

\* `if status.get('status') != 0: ... continue`
Continues(status) == status # 0

\* client.get_system_status(): a status other than 0 is logged and skips the pair.
CheckSystemStatus ==
  /\ pc = "status"
  /\ \E status \in {0, 1} :
       /\ log' = IF status # 0
                 THEN [log EXCEPT ![i] = @ \cup {"binance_unavailable"}]
                 ELSE log
       /\ IF Continues(status)
          THEN NextPair
          ELSE /\ pc' = "pair"
               /\ UNCHANGED << i, trading_pair_id, fetch_start, fetchVars,
                               copy_result, txn_aborted >>
  /\ UNCHANGED << concVars, apiVars, jsonVars, history, pre_listing_empty, sources, trading_pairs, candlesticks, pending, lastDone >>

\* pg.get_or_create_trading_pair: the source, then the pair.  A store failure
\* before the source is committed leaves nothing, one after it leaves the source.
\* On a connection whose transaction is aborted the first statement fails; the
\* except blocks log the error, roll back and raise.
GetOrCreateTradingPair ==
  /\ pc = "pair"
  /\ LET src == get_or_create_source(sources, source_name)
         tp  == get_or_create_trading_pair(trading_pairs, Pairs[i].symbol,
                                           Pairs[i].interval, src.id)
     IN IF txn_aborted
        THEN /\ pc' = "raised"
             /\ log' = [log EXCEPT ![i] = @ \cup {"in_failed_transaction"}]
             /\ UNCHANGED << sources, trading_pairs, trading_pair_id >>
        ELSE /\ \/ /\ pc' = "raised"
                   /\ UNCHANGED << sources, trading_pairs, trading_pair_id >>
                \/ /\ sources' = src.tbl
                   /\ pc' = "raised"
                   /\ UNCHANGED << trading_pairs, trading_pair_id >>
                \/ /\ sources' = src.tbl
                   /\ trading_pairs' = tp.tbl
                   /\ trading_pair_id' = tp.id
                   /\ pc' = "last_close"
             /\ UNCHANGED log
  /\ txn_aborted' = FALSE
  /\ UNCHANGED << concVars, apiVars, jsonVars, history, pre_listing_empty, candlesticks, pending,
                  copy_result, i, fetch_start, fetchVars, lastDone >>

\* pg.get_last_close_time and the choice of start_ts, then the call of
\* bh.load_candlestick_data, which logs the start of the load.  A failure of
\* the query is logged and raised without a rollback: when the statement
\* failed in the store, the transaction stays aborted.
GetLastCloseTime ==
  /\ pc = "last_close"
  /\ \/ /\ pc' = "raised"
        /\ \E aborted \in BOOLEAN : txn_aborted' = aborted
        /\ UNCHANGED << fetch_start, fetchVars, log >>
     \/ /\ LET ts == ResumePoint(get_last_close_time(trading_pair_id),
                                 Pairs[i].start_date)
           IN /\ start_ts' = ts
              /\ fetch_start' = ts
        /\ output_data' = << >>
        /\ idx' = 0
        /\ symbol_existed' = FALSE
        /\ requests' = << >>
        /\ log' = [log EXCEPT ![i] = @ \cup {"loading"}]
        /\ pc' = "fetch"
        /\ UNCHANGED txn_aborted
  /\ UNCHANGED << concVars, apiVars, jsonVars, history, pre_listing_empty, dbVars, i, trading_pair_id,
                  lastDone >>

\* The rows of df_klines.
df_klines == [k \in 1..Len(output_data) |-> Row(trading_pair_id, output_data[k])]

\* `else: logger.warning("No new data available ...")`
NoNewData ==
  /\ pc = "returned"
  /\ output_data = << >>
  /\ log' = [log EXCEPT ![i] = @ \cup {"no_new_data"}]
  /\ lastDone' = [lastDone EXCEPT ![i] =
                    [valid |-> TRUE, bars |-> Last(requests).bars,
                     rows |-> RowCount(trading_pair_id)]]
  /\ NextPair
  /\ UNCHANGED << concVars, apiVars, jsonVars, history, pre_listing_empty, sources, trading_pairs, candlesticks, pending >>

\* pg.copy_import_candlestick_data, the try block: COPY writes the rows in
\* order and stops at the first row it rejects or at a store failure (fail_at;
\* Len + 1 is a failure of the commit); only a commit makes rows visible.
CopyImportCandlestickData ==
  /\ pc = "returned"
  /\ output_data # << >>
  /\ \E fail_at \in 0..(Len(df_klines) + 1) :
       LET conflict == FirstConflict(df_klines)
           stop == IF conflict # 0 /\ (fail_at = 0 \/ conflict < fail_at)
                   THEN conflict ELSE fail_at
       IN IF stop = 0
          THEN /\ candlesticks' = Commit(candlesticks, df_klines)
               /\ pending' = << >>
               /\ copy_result' = "ok"
               /\ pc' = "copied"
          ELSE /\ pending' = SubSeq(df_klines, 1, stop - 1)
               /\ copy_result' = IF stop = conflict /\ fail_at # conflict
                                 THEN "conflict" ELSE "store_failure"
               /\ pc' = "copy_failed"
               /\ UNCHANGED candlesticks
  /\ UNCHANGED << concVars, apiVars, jsonVars, history, pre_listing_empty, sources, trading_pairs, i,
                  trading_pair_id, fetch_start, fetchVars, log, lastDone, txn_aborted >>

\* pg.copy_import_candlestick_data, the except block: log, roll back, return.
CopyImportRollback ==
  /\ pc = "copy_failed"
  /\ candlesticks' = Rollback(candlesticks, pending)
  /\ pending' = << >>
  /\ log' = [log EXCEPT ![i] = @ \cup {"copy_error"}]
  /\ pc' = "copied"
  /\ UNCHANGED << concVars, apiVars, jsonVars, history, pre_listing_empty, sources, trading_pairs,
                  copy_result, i, trading_pair_id, fetch_start, fetchVars,
                  lastDone, txn_aborted >>

\* `logger.info("Data for ... has been successfully processed.")`
ReportProcessed ==
  /\ pc = "copied"
  /\ log' = [log EXCEPT ![i] = @ \cup {"processed"}]
  /\ lastDone' = IF "copy_error" \in log[i]
                 THEN lastDone
                 ELSE [lastDone EXCEPT ![i] =
                         [valid |-> TRUE, bars |-> Last(requests).bars,
                          rows |-> RowCount(trading_pair_id)]]
  /\ NextPair
  /\ UNCHANGED << concVars, apiVars, jsonVars, history, pre_listing_empty, sources, trading_pairs, candlesticks, pending >>

\* The failed load is tried again.
HandleException_retries ==
  /\ pc = "raised"
  /\ pc' = "fetch"
  /\ UNCHANGED << concVars, apiVars, jsonVars, history, pre_listing_empty, dbVars, i,
                  trading_pair_id, fetch_start, fetchVars, log, lastDone,
                  txn_aborted >>

\* `except Exception as e: logger.error(...)`
HandleException ==
  /\ pc = "raised"
  /\ log' = [log EXCEPT ![i] = @ \cup {"error"}]
  /\ NextPair
  /\ UNCHANGED << concVars, apiVars, jsonVars, history, pre_listing_empty, sources, trading_pairs, candlesticks, pending, lastDone >>

\* The exchange publishes a bar.
Publish ==
  /\ \E p \in PairIdx : SourceGrow(p, MaxBars)
  /\ UNCHANGED << concVars, apiVars, jsonVars, pre_listing_empty, dbVars, pc, i, trading_pair_id,
                  fetch_start, fetchVars, log, lastDone, txn_aborted >>

FetchStep ==
  /\ \E request_fails \in BOOLEAN : GetKlinesRequest(request_fails)

InitLoader ==
  /\ history = [p \in PairIdx |-> << >>]
  /\ pre_listing_empty \in BOOLEAN
  /\ candlesticks = EmptyBag
  /\ pending = << >>
  /\ copy_result = "none"
  /\ pc = "idle"
  /\ i = 1
  /\ trading_pair_id = 0
  /\ start_ts = 0
  /\ fetch_start = 0
  /\ output_data = << >>
  /\ idx = 0
  /\ symbol_existed = FALSE
  /\ requests = << >>
  /\ log = [p \in PairIdx |-> {}]
  /\ lastDone = [p \in PairIdx |-> [valid |-> FALSE, bars |-> 0, rows |-> 0]]
  /\ txn_aborted = FALSE

\* No concurrent caller.
InitCallers ==
  /\ cpc = [c \in Callers |-> "idle"]
  /\ carg = [c \in Callers |-> 1]
  /\ c_source_id = [c \in Callers |-> 0]
  /\ c_pair_id = [c \in Callers |-> 0]
  /\ uncommitted = [c \in Callers |-> {}]

\* No request.
InitApi ==
  /\ api_pc = "idle"
  /\ path_symbol = ""
  /\ target_interval = << >>
  /\ available_intervals = << >>
  /\ chosen_interval = None
  /\ api_error = "none"
  /\ conn_state = "none"
  /\ queries = << >>
  /\ data = << >>

\* The JSON-file loader is not running and has written no file.
InitJson ==
  /\ files = {}
  /\ jpc = "idle"
  /\ jpair = 1
  /\ jstart_ts = 0
  /\ klines = << >>

Init ==
  /\ InitLoader
  /\ sources = {}
  /\ trading_pairs = {}
  /\ InitCallers
  /\ InitApi
  /\ InitJson

Next ==
  \/ StartRun
  \/ CheckSystemStatus
  \/ GetOrCreateTradingPair
  \/ GetLastCloseTime
  \/ FetchStep
  \/ NoNewData
  \/ CopyImportCandlestickData
  \/ CopyImportRollback
  \/ ReportProcessed
  \/ HandleException
  \/ Publish

Spec == Init /\ [][Next]_vars


(* ---------------------- get_klines checked alone ----------------------- *)

\* The exchange history is built first, then get_klines is called once with
\* a start timestamp; no request fails.
InitFetch ==
  /\ Init
  /\ pc = "idle"

PublishBefore ==
  /\ pc = "idle"
  /\ \E p \in PairIdx : SourceGrow(p, MaxFetchBars)
  /\ UNCHANGED << concVars, apiVars, jsonVars, pre_listing_empty, dbVars, pc, i, trading_pair_id,
                  fetch_start, fetchVars, log, lastDone, txn_aborted >>

CallGetKlines ==
  /\ pc = "idle"
  /\ pc' = "fetch"
  /\ \E p \in PairIdx, ts \in FetchStarts :
       /\ i' = p
       /\ start_ts' = ts
       /\ fetch_start' = ts
  /\ UNCHANGED << concVars, apiVars, jsonVars, history, pre_listing_empty, dbVars, trading_pair_id,
                  output_data, idx, symbol_existed, requests, log, lastDone, txn_aborted >>

Request ==
  /\ GetKlinesRequest(FALSE)

NextFetch ==
  \/ PublishBefore
  \/ CallGetKlines
  \/ Request

SpecFetch == InitFetch /\ [][NextFetch]_vars

\* The fetch has ended: get_klines returned or raised.
FetchEnded == pc \in {"returned", "raised"}

\* The bars of pair p that open at or after ts.
BarsFrom(p, ts) == SelectSeq(history[p], LAMBDA b : b.open_time >= ts)


(* ------------- get_or_create_trading_pair, concurrent callers ------------ *)

\* `SELECT id FROM sources WHERE name = %s`
SelectSource(tbl, name) == {s \in tbl : s.name = name}

\* `SELECT id FROM trading_pairs WHERE symbol = %s AND interval = %s AND
\* source_id = %s`
SelectTradingPair(tbl, symbol, interval, source_id) ==
  {t \in tbl : /\ t.symbol = symbol
               /\ t.interval = interval
               /\ t.source_id = source_id}

\* trading_pairs is unique on (symbol, interval, source_id).
TradingPairUnique(rows, row) ==
  SelectTradingPair(rows, row.symbol, row.interval, row.source_id) # {}

\* Rows written to trading_pairs by open transactions of other callers.
UncommittedOf(others) == UNION {uncommitted[c] : c \in others}

\* The next value of the id sequence of trading_pairs.
NextPairId ==
  Cardinality(trading_pairs \cup UncommittedOf(Callers)) + 1

\* A process calls get_or_create_trading_pair for one of the configured pairs.
Call(c) ==
  /\ cpc[c] = "idle"
  /\ \E p \in PairIdx : carg' = [carg EXCEPT ![c] = p]
  /\ cpc' = [cpc EXCEPT ![c] = "source_select"]
  /\ UNCHANGED << loaderVars, apiVars, jsonVars, sources, trading_pairs, c_source_id, c_pair_id, uncommitted >>

\* get_or_create_source: the lookup by name.
SourceSelect(c) ==
  /\ cpc[c] = "source_select"
  /\ LET result == SelectSource(sources, source_name)
     IN IF result # {}
        THEN /\ c_source_id' = [c_source_id EXCEPT ![c] =
                                  (CHOOSE s \in result : TRUE).id]
             /\ cpc' = [cpc EXCEPT ![c] = "pair_select"]
        ELSE /\ cpc' = [cpc EXCEPT ![c] = "source_insert"]
             /\ UNCHANGED c_source_id
  /\ UNCHANGED << loaderVars, apiVars, jsonVars, sources, trading_pairs, carg, c_pair_id, uncommitted >>

\* get_or_create_source: `INSERT INTO sources ... RETURNING id` and the commit.
SourceInsert(c) ==
  /\ cpc[c] = "source_insert"
  /\ sources' = sources \cup {[id |-> Cardinality(sources) + 1,
                               name |-> source_name]}
  /\ c_source_id' = [c_source_id EXCEPT ![c] = Cardinality(sources) + 1]
  /\ cpc' = [cpc EXCEPT ![c] = "pair_select"]
  /\ UNCHANGED << loaderVars, apiVars, jsonVars, trading_pairs, carg, c_pair_id, uncommitted >>

\* get_or_create_trading_pair: the lookup of the pair among the committed rows.
PairSelect(c) ==
  /\ cpc[c] = "pair_select"
  /\ LET result == SelectTradingPair(trading_pairs, Pairs[carg[c]].symbol,
                                     Pairs[carg[c]].interval, c_source_id[c])
     IN IF result # {}
        THEN /\ c_pair_id' = [c_pair_id EXCEPT ![c] =
                                (CHOOSE t \in result : TRUE).id]
             /\ cpc' = [cpc EXCEPT ![c] = "returned"]
        ELSE /\ cpc' = [cpc EXCEPT ![c] = "pair_insert"]
             /\ UNCHANGED c_pair_id
  /\ UNCHANGED << loaderVars, apiVars, jsonVars, sources, trading_pairs, carg, c_source_id, uncommitted >>

\* get_or_create_trading_pair: `INSERT INTO trading_pairs ... RETURNING id`.
\* The insert waits while another transaction holds an uncommitted row with
\* the same key, and fails when a committed row has it.
PairInsert(c) ==
  /\ cpc[c] = "pair_insert"
  /\ LET row == [id |-> NextPairId, symbol |-> Pairs[carg[c]].symbol,
                 interval |-> Pairs[carg[c]].interval,
                 source_id |-> c_source_id[c]]
     IN /\ ~TradingPairUnique(UncommittedOf(Callers \ {c}), row)
        /\ IF TradingPairUnique(trading_pairs, row)
           THEN /\ cpc' = [cpc EXCEPT ![c] = "failed"]
                /\ UNCHANGED uncommitted
           ELSE /\ uncommitted' = [uncommitted EXCEPT ![c] = @ \cup {row}]
                /\ cpc' = [cpc EXCEPT ![c] = "pair_commit"]
  /\ UNCHANGED << loaderVars, apiVars, jsonVars, sources, trading_pairs, carg, c_source_id, c_pair_id >>

\* get_or_create_trading_pair: `connection.commit()` and the return of the id.
PairCommit(c) ==
  /\ cpc[c] = "pair_commit"
  /\ trading_pairs' = trading_pairs \cup uncommitted[c]
  /\ c_pair_id' = [c_pair_id EXCEPT ![c] =
                     (CHOOSE t \in uncommitted[c] : TRUE).id]
  /\ uncommitted' = [uncommitted EXCEPT ![c] = {}]
  /\ cpc' = [cpc EXCEPT ![c] = "returned"]
  /\ UNCHANGED << loaderVars, apiVars, jsonVars, sources, carg, c_source_id >>

\* get_or_create_trading_pair: `except Exception`: rollback and raise.
PairRaise(c) ==
  /\ cpc[c] = "failed"
  /\ uncommitted' = [uncommitted EXCEPT ![c] = {}]
  /\ cpc' = [cpc EXCEPT ![c] = "raised"]
  /\ UNCHANGED << loaderVars, apiVars, jsonVars, sources, trading_pairs, carg, c_source_id, c_pair_id >>

\* The store before the callers start: empty, or holding the source already.
InitConc ==
  /\ InitLoader
  /\ sources \in {{}, {[id |-> 1, name |-> source_name]}}
  /\ trading_pairs = {}
  /\ InitCallers
  /\ InitApi
  /\ InitJson

NextConc ==
  \E c \in Callers :
    \/ Call(c)
    \/ SourceSelect(c)
    \/ SourceInsert(c)
    \/ PairSelect(c)
    \/ PairInsert(c)
    \/ PairCommit(c)
    \/ PairRaise(c)

SpecConc == InitConc /\ [][NextConc]_vars


(* ----------------------- intervals of the query API ---------------------- *)

\* str.lower() on the modelled characters.
lower(s) ==
  [k \in 1..Len(s) |-> CASE s[k] = "H" -> "h"
                         [] s[k] = "M" -> "m"
                         [] OTHER -> s[k]]

\* re.match(r"(\d+)([mhdw])", s): the pattern is matched at the start of s
\* and need not reach its end.  {} is no match, otherwise the groups.
re_match(s) ==
  LET n == CHOOSE k \in 0..Len(s) :
             /\ \A j \in 1..k : IsDigit(s[j])
             /\ k = Len(s) \/ ~IsDigit(s[k + 1])
  IN IF n >= 1 /\ n < Len(s) /\ s[n + 1] \in {"m", "h", "d", "w"}
     THEN {[value_str |-> SubSeq(s, 1, n), unit |-> s[n + 1]]}
     ELSE {}

\* `raise ValueError(...)`: no number of minutes.
ValueError == -1

interval_to_minutes(interval) ==
  LET match == re_match(lower(interval))
  IN IF match = {}
     THEN ValueError
     ELSE LET groups == CHOOSE g \in match : TRUE
              value  == int(groups.value_str)
          IN CASE groups.unit = "m" -> value
               [] groups.unit = "h" -> value * 60
               [] groups.unit = "d" -> value * 60 * 24
               [] groups.unit = "w" -> value * 60 * 24 * 7

\* The text of the time bucket, "<value> <unit word>" with an s for a value
\* other than 1, as its words; << ValueError >> for a string that does not
\* match.
build_time_bucket_part(interval_str) ==
  LET match == re_match(lower(interval_str))
  IN IF match = {}
     THEN << ValueError >>
     ELSE LET groups   == CHOOSE g \in match : TRUE
              value    == int(groups.value_str)
              singular == CASE groups.unit = "m" -> "minute"
                            [] groups.unit = "h" -> "hour"
                            [] groups.unit = "d" -> "day"
                            [] groups.unit = "w" -> "week"
          IN IF value = 1
             THEN << value, singular >>
             ELSE << value, singular, "s" >>

\* sorted(available_intervals, key=interval_to_minutes): a stable sort.
RECURSIVE sorted(_)
sorted(intervals) ==
  IF intervals = << >> THEN << >>
  ELSE LET front == sorted(SubSeq(intervals, 1, Len(intervals) - 1))
           x     == intervals[Len(intervals)]
           n     == Cardinality({k \in 1..Len(front) :
                       interval_to_minutes(front[k]) <= interval_to_minutes(x)})
       IN SubSeq(front, 1, n) \o << x >> \o SubSeq(front, n + 1, Len(front))

\* The loop stops at the first interval that is not above the target.
RECURSIVE Scan_first(_, _, _)
Scan_first(intervals, target_minutes, chosen) ==
  IF intervals = << >> THEN chosen
  ELSE IF interval_to_minutes(Head(intervals)) <= target_minutes
       THEN Head(intervals)
       ELSE Scan_first(Tail(intervals), target_minutes, chosen)

\* `for iv in available_intervals_sorted: if interval_to_minutes(iv) <=
\* target_minutes: chosen = iv`
RECURSIVE Scan(_, _, _)
Scan(intervals, target_minutes, chosen) ==
  IF intervals = << >> THEN chosen
  ELSE Scan(Tail(intervals), target_minutes,
            IF interval_to_minutes(Head(intervals)) <= target_minutes
            THEN Head(intervals)
            ELSE chosen)

\* With no interval at or below the target the finest available one is
\* returned.
search_suitable_interval_fallback(available, target) ==
  IF \/ \E k \in 1..Len(available) :
          interval_to_minutes(available[k]) = ValueError
     \/ interval_to_minutes(target) = ValueError
  THEN [chosen |-> None, raised |-> "invalid_interval"]
  ELSE LET chosen == Scan(sorted(available), interval_to_minutes(target), None)
       IN IF chosen = None /\ available = << >>
          THEN [chosen |-> None, raised |-> "no_suitable_interval"]
          ELSE IF chosen = None
          THEN [chosen |-> sorted(available)[1], raised |-> "none"]
          ELSE [chosen |-> chosen, raised |-> "none"]

\* The chosen interval, or the ValueError raised: by interval_to_minutes for
\* an available interval or the target, or for no suitable interval.
search_suitable_interval(available, target) ==
  IF \/ \E k \in 1..Len(available) :
          interval_to_minutes(available[k]) = ValueError
     \/ interval_to_minutes(target) = ValueError
  THEN [chosen |-> None, raised |-> "invalid_interval"]
  ELSE LET chosen == Scan(sorted(available), interval_to_minutes(target), None)
       IN IF chosen = None
          THEN [chosen |-> None, raised |-> "no_suitable_interval"]
          ELSE [chosen |-> chosen, raised |-> "none"]


(* ------------------------- get_candlestick_data ------------------------- *)

\* Minutes from the epoch to the origin of time_bucket, Monday 3 Jan 2000
\* 00:00 UTC.
TimeBucketOrigin == 15780960

\* The width in minutes of the interval text made by build_time_bucket_part.
BucketMinutes(part) ==
  part[1] * (CASE part[2] = "minute" -> 1
               [] part[2] = "hour"   -> 60
               [] part[2] = "day"    -> 60 * 24
               [] part[2] = "week"   -> 60 * 24 * 7)

\* time_bucket('<n> <unit>', timestamp) in milliseconds: buckets of the
\* width are counted from the origin.
time_bucket(minutes, ts) ==
  LET width  == minutes * 60000
      offset == (TimeBucketOrigin % minutes) * 60000
  IN offset + ((ts - offset) \div width) * width

\* `FROM candlesticks t1 JOIN trading_pairs t2 ON t1.trading_pair_id = t2.id
\* WHERE t2.symbol = ... AND t2.interval = ...`; t1.timestamp is open_time.
Joined(sym, interval) ==
  {t1 \in BagToSet(candlesticks) :
     \E t2 \in trading_pairs : /\ t1.trading_pair_id = t2.id
                               /\ t2.symbol = sym
                               /\ t2.interval = interval}

\* SUM(column) over rows, each counted as often as it is stored.
RECURSIVE SUM(_, _)
SUM(rows, column) ==
  IF rows = {} THEN 0
  ELSE LET r == CHOOSE x \in rows : TRUE
       IN r[column] * CopiesIn(r, candlesticks) + SUM(rows \ {r}, column)

MIN(rows, column) ==
  CHOOSE v \in {r[column] : r \in rows} : \A r \in rows : v <= r[column]

MAX(rows, column) ==
  CHOOSE v \in {r[column] : r \in rows} : \A r \in rows : v >= r[column]

\* FIRST(column, timestamp): the column of a row with the least timestamp;
\* which one, when several rows have it, is not determined.
FIRST(rows, column) ==
  {r[column] : r \in {x \in rows : \A y \in rows : x.open_time <= y.open_time}}

\* The close of the earliest row is taken.
LAST_earliest(rows, column) ==
  {r[column] : r \in {x \in rows : \A y \in rows : x.open_time <= y.open_time}}

\* LAST(column, timestamp): the column of a row with the greatest timestamp.
LAST(rows, column) ==
  {r[column] : r \in {x \in rows : \A y \in rows : x.open_time >= y.open_time}}

\* The buckets come in descending order.
RECURSIVE ORDER_BY_desc(_)
ORDER_BY_desc(times) ==
  IF times = {} THEN << >>
  ELSE LET t == CHOOSE x \in times : \A y \in times : x >= y
       IN << t >> \o ORDER_BY_desc(times \ {t})

\* `GROUP BY bucket_time ORDER BY bucket_time`: the bucket times, ascending.
RECURSIVE ORDER_BY(_)
ORDER_BY(times) ==
  IF times = {} THEN << >>
  ELSE LET t == CHOOSE x \in times : \A y \in times : x <= y
       IN << t >> \o ORDER_BY(times \ {t})

\* The json objects that the query can build for the group of a bucket.
json_build_object(bucket_time, rows) ==
  {[open_time |-> bucket_time,
    low |-> MIN(rows, "low"),
    high |-> MAX(rows, "high"),
    open |-> o,
    close |-> c,
    volume |-> SUM(rows, "volume"),
    number_of_trades |-> SUM(rows, "number_of_trades")] :
     o \in FIRST(rows, "open"), c \in LAST(rows, "close")}

\* json_agg over the groups in their order: the lists it can produce.
RECURSIVE json_agg(_, _, _)
json_agg(bucket_times, rows, minutes) ==
  IF bucket_times = << >> THEN {<< >>}
  ELSE {<< object >> \o rest :
          object \in json_build_object(
                       Head(bucket_times),
                       {r \in rows : time_bucket(minutes, r.open_time)
                                       = Head(bucket_times)}),
          rest \in json_agg(Tail(bucket_times), rows, minutes)}

\* The results that get_candlestick_data can return; json_agg over no row
\* is NULL, which `row[0] if row and row[0] else []` turns into [].
get_candlestick_data(sym, target, interval) ==
  LET minutes == BucketMinutes(build_time_bucket_part(target))
      rows    == Joined(sym, interval)
      bucket_times ==
        ORDER_BY({time_bucket(minutes, r.open_time) : r \in rows})
  IN json_agg(bucket_times, rows, minutes)


(* ------------------------------ query API ------------------------------- *)

\* Characters of the target intervals requested.
TargetChars == {"1", "5", "m", "h", "H", "x"}

\* The target intervals requested: every string of up to MaxTargetLen
\* characters.
Targets == UNION {[1..n -> TargetChars] : n \in 1..MaxTargetLen}

\* Intervals of the trading pairs found in the store.
StoredIntervals ==
  { << "1", "m" >>, << "5", "m" >>, << "1", "h" >>, << "6", "0", "m" >> }

\* The trading_pairs rows of a symbol stored at the given intervals.
PairsTable(sym, intervals) ==
  LET order == OrderBy(intervals)
  IN {[id |-> k, symbol |-> sym, interval |-> order[k], source_id |-> 1] :
        k \in 1..Len(order)}

\* A request fails: the exception leaves the handler.
Fail(kind) ==
  /\ api_error' = kind
  /\ api_pc' = "failed"

\* `conn = connect_to_database(config['postgres'])`
Connect ==
  /\ api_pc = "connect"
  /\ \/ /\ conn_state' = "open"
        /\ api_pc' = "available"
        /\ UNCHANGED api_error
     \/ /\ Fail("connect_failed")
        /\ UNCHANGED conn_state
  /\ UNCHANGED << loaderVars, concVars, jsonVars, sources, trading_pairs,
                  path_symbol, target_interval, available_intervals,
                  chosen_interval, queries, data >>

\* `psql_ops.get_available_intervals_for_trading_pair(conn, symbol)`
GetAvailableIntervals ==
  /\ api_pc = "available"
  /\ queries' = Append(queries, "available_intervals")
  /\ \/ /\ available_intervals' =
             get_available_intervals_for_trading_pair(trading_pairs,
                                                      path_symbol)
        /\ api_pc' = "search"
        /\ UNCHANGED api_error
     \/ /\ Fail("query_failed")
        /\ UNCHANGED available_intervals
  /\ UNCHANGED << loaderVars, concVars, jsonVars, sources, trading_pairs,
                  path_symbol, target_interval, chosen_interval, conn_state,
                  data >>

\* `chosen_interval = search_suitable_interval(...)`
SearchSuitableInterval ==
  /\ api_pc = "search"
  /\ LET result == search_suitable_interval(available_intervals,
                                            target_interval)
     IN IF result.raised # "none"
        THEN /\ Fail(result.raised)
             /\ UNCHANGED chosen_interval
        ELSE /\ chosen_interval' = result.chosen
             /\ api_pc' = "data"
             /\ UNCHANGED api_error
  /\ UNCHANGED << loaderVars, concVars, jsonVars, sources, trading_pairs,
                  path_symbol, target_interval, available_intervals,
                  conn_state, queries, data >>

\* `psql_ops.get_candlestick_data(conn, symbol, target_interval,
\* chosen_interval)`: the bucket text, the query, conn.close().
GetCandlestickData ==
  /\ api_pc = "data"
  /\ IF build_time_bucket_part(target_interval) = << ValueError >>
     THEN /\ Fail("invalid_interval")
          /\ UNCHANGED << queries, conn_state, data >>
     ELSE /\ queries' = Append(queries, "candlestick_data")
          /\ \/ /\ \E result \in get_candlestick_data(path_symbol,
                                                       target_interval,
                                                       chosen_interval) :
                     data' = result
                /\ conn_state' = "closed"
                /\ api_pc' = "returned"
                /\ UNCHANGED api_error
             \/ /\ Fail("query_failed")
                /\ UNCHANGED << conn_state, data >>
  /\ UNCHANGED << loaderVars, concVars, jsonVars, sources, trading_pairs,
                  path_symbol, target_interval, available_intervals,
                  chosen_interval >>

\* A request GET /candlesticks/{symbol}/{target_interval} on a store that
\* holds trading pairs of the symbol at some intervals.
InitApiRequest ==
  /\ InitLoader
  /\ InitCallers
  /\ InitJson
  /\ sources = {[id |-> 1, name |-> source_name]}
  /\ \E intervals \in SUBSET StoredIntervals :
       trading_pairs = PairsTable("BTCUSDT", intervals)
  /\ api_pc = "connect"
  /\ path_symbol = "BTCUSDT"
  /\ target_interval \in Targets
  /\ available_intervals = << >>
  /\ chosen_interval = None
  /\ api_error = "none"
  /\ conn_state = "none"
  /\ queries = << >>
  /\ data = << >>

NextApi ==
  \/ Connect
  \/ GetAvailableIntervals
  \/ SearchSuitableInterval
  \/ GetCandlestickData

SpecApi == InitApiRequest /\ [][NextApi]_vars

(* ----------------- query API over stored candlesticks ------------------ *)

\* Target intervals requested for an aggregation.
AggTargets ==
  { << "1", "m" >>, << "2", "m" >>, << "5", "m" >>, << "1", "h" >>,
    << "1", "d" >>, << "1", "w" >> }

\* The closes of successive bars; a bar opens at the previous bar's close.
Closes == << 10, 11, 9, 12, 10 >>

CloseAt(k) == Closes[(k % Len(Closes)) + 1]

OpenAt(k) == IF k = 0 THEN 10 ELSE CloseAt(k - 1)

\* The stored row of the k-th bar of a trading pair: the columns written by
\* copy_from, the timestamp being the open time.
Candlestick(id, first, width, k, shift, vol) ==
  [trading_pair_id |-> id,
   open_time |-> first + k * width,
   close_time |-> first + (k + 1) * width - 1,
   open |-> OpenAt(k) + shift,
   high |-> (IF OpenAt(k) > CloseAt(k) THEN OpenAt(k) ELSE CloseAt(k)) + shift,
   low |-> (IF OpenAt(k) < CloseAt(k) THEN OpenAt(k) ELSE CloseAt(k)) + shift,
   close |-> CloseAt(k) + shift,
   volume |-> vol,
   number_of_trades |-> k + 1]

\* What the store holds next to BTCUSDT 1m of the first source: nothing, the
\* same symbol and interval of a second source, another symbol, or another
\* interval of the symbol.
OtherPair(kind) ==
  CASE kind = "none"     -> {}
    [] kind = "source"   -> {[id |-> 2, symbol |-> "BTCUSDT",
                              interval |-> << "1", "m" >>, source_id |-> 2]}
    [] kind = "symbol"   -> {[id |-> 2, symbol |-> "ETHUSDT",
                              interval |-> << "1", "m" >>, source_id |-> 1]}
    [] kind = "interval" -> {[id |-> 2, symbol |-> "BTCUSDT",
                              interval |-> << "5", "m" >>, source_id |-> 1]}

\* A request GET /candlesticks/BTCUSDT/{target_interval} on a store that the
\* loaders have filled: up to MaxAggBars 1m bars of BTCUSDT with gaps, and
\* the bars of the other pair.
InitAgg ==
  /\ history = [p \in PairIdx |-> << >>]
  /\ pre_listing_empty = FALSE
  /\ pending = << >>
  /\ copy_result = "none"
  /\ pc = "idle"
  /\ i = 1
  /\ trading_pair_id = 0
  /\ start_ts = 0
  /\ fetch_start = 0
  /\ output_data = << >>
  /\ idx = 0
  /\ symbol_existed = FALSE
  /\ requests = << >>
  /\ log = [p \in PairIdx |-> {}]
  /\ lastDone = [p \in PairIdx |-> [valid |-> FALSE, bars |-> 0, rows |-> 0]]
  /\ txn_aborted = FALSE
  /\ InitCallers
  /\ InitJson
  /\ \E kind \in {"none", "source", "symbol", "interval"},
        first \in {0, 120000},
        slots \in SUBSET (0..(MaxAggBars - 1)) :
       /\ sources = {[id |-> 1, name |-> source_name]}
                      \cup (IF kind = "source"
                            THEN {[id |-> 2, name |-> source_name]}
                            ELSE {})
       /\ trading_pairs
            = {[id |-> 1, symbol |-> "BTCUSDT", interval |-> << "1", "m" >>,
                source_id |-> 1]} \cup OtherPair(kind)
       /\ candlesticks
            = SetToBag({Candlestick(1, first, 60000, k, 0, 1) : k \in slots}
                \cup (IF kind = "none" THEN {}
                      ELSE {Candlestick(2, first,
                                        IF kind = "interval" THEN 300000
                                                             ELSE 60000,
                                        k, 100, 2) : k \in slots}))
  /\ api_pc = "connect"
  /\ path_symbol = "BTCUSDT"
  /\ target_interval \in AggTargets
  /\ available_intervals = << >>
  /\ chosen_interval = None
  /\ api_error = "none"
  /\ conn_state = "none"
  /\ queries = << >>
  /\ data = << >>

SpecAgg == InitAgg /\ [][NextApi]_vars



(* -------------------------- JSON-file loader --------------------------- *)

\* A path names a directory and the file `<symbol>_<interval>.json` in it;
\* "." is the working directory.
Path(dir, sym, interval) == [dir |-> dir, symbol |-> sym, interval |-> interval]

\* `file_path.exists()`
exists(path) == \E f \in files : f.path = path

\* `json.load(file)`
json_load(path) == (CHOOSE f \in files : f.path = path).content

\* `file_path = Path(f"{symbol}_{interval}.json")`: the close time of the
\* last entry of the file, {} for None.
load_last_close_time_from_json(sym, interval) ==
  LET file_path == Path(".", sym, interval)
  IN IF exists(file_path) /\ json_load(file_path) # << >>
     THEN {Last(json_load(file_path)).close_time}
     ELSE {}

\* `out_json = Path("sample_data") / f"{symbol}_{interval}.json"` and
\* df.to_json(out_json): the file is written anew.
save_to_json(rows, sym, interval) ==
  LET out_json == Path("sample_data", sym, interval)
  IN {f \in files : f.path # out_json}
       \cup {[path |-> out_json, content |-> rows]}

\* `for pair in pairs`: the next pair, or the end of the run.
JsonNextPair ==
  /\ IF jpair < Len(Pairs)
     THEN jpair' = jpair + 1 /\ jpc' = "status"
     ELSE jpair' = 1 /\ jpc' = "idle"
  /\ jstart_ts' = 0
  /\ klines' = << >>

\* A run of the script starts.
JsonStartRun ==
  /\ jpc = "idle"
  /\ jpc' = "status"
  /\ jpair' = 1
  /\ UNCHANGED << loaderVars, concVars, apiVars, sources, trading_pairs,
                  files, jstart_ts, klines >>

\* client.get_system_status(): the pair is loaded on status 0, else skipped.
JsonCheckSystemStatus ==
  /\ jpc = "status"
  /\ \E status \in {0, 1} :
       IF status = 0
       THEN /\ jpc' = "load"
            /\ UNCHANGED << jpair, jstart_ts, klines >>
       ELSE JsonNextPair
  /\ UNCHANGED << loaderVars, concVars, apiVars, sources, trading_pairs,
                  files >>

\* load_candlestick_data: the last close time and the choice of start_ts.
JsonLoadLastCloseTime ==
  /\ jpc = "load"
  /\ LET last_close_time ==
           load_last_close_time_from_json(Pairs[jpair].symbol,
                                          Pairs[jpair].interval)
     IN jstart_ts' = ResumePoint(last_close_time, Pairs[jpair].start_date)
  /\ jpc' = "fetch"
  /\ UNCHANGED << loaderVars, concVars, apiVars, sources, trading_pairs,
                  files, jpair, klines >>

\* get_klines(client, symbol, interval, start_ts): the bars from start_ts
\* on, fewer of them when the loop ends early, or an exception, which
\* process_trading_pairs logs.
JsonGetKlines ==
  /\ jpc = "fetch"
  /\ \/ /\ \E n \in 0..Len(BarsFrom(jpair, jstart_ts)) :
             klines' = Prefix(BarsFrom(jpair, jstart_ts), n)
        /\ jpc' = "save"
        /\ UNCHANGED << jpair, jstart_ts >>
     \/ JsonNextPair
  /\ UNCHANGED << loaderVars, concVars, apiVars, sources, trading_pairs,
                  files >>

\* save_to_json(klines, symbol, interval)
JsonSave ==
  /\ jpc = "save"
  /\ files' = save_to_json(klines, Pairs[jpair].symbol, Pairs[jpair].interval)
  /\ JsonNextPair
  /\ UNCHANGED << loaderVars, concVars, apiVars, sources, trading_pairs >>

\* The exchange publishes a bar.
JsonPublish ==
  /\ \E p \in PairIdx : SourceGrow(p, MaxBars)
  /\ UNCHANGED << concVars, apiVars, jsonVars, pre_listing_empty, dbVars, pc,
                  i, trading_pair_id, fetch_start, fetchVars, log, lastDone,
                  txn_aborted >>

NextJson ==
  \/ JsonStartRun
  \/ JsonCheckSystemStatus
  \/ JsonLoadLastCloseTime
  \/ JsonGetKlines
  \/ JsonSave
  \/ JsonPublish

SpecJson == Init /\ [][NextJson]_vars


(* ------------------------------ properties ----------------------------- *)

\* Rows of pair p stored so far.
Stored(p) == RowsOf(PairId(p))

\* C1. Idempotent resume: while the exchange history of a pair is what it
\* was when a run last completed the pair cleanly, no later run adds a row
\* for the pair: its row count is the one that run left.
C1_IdempotentResume ==
  \A p \in PairIdx :
     (lastDone[p].valid /\ Len(history[p]) = lastDone[p].bars)
       => RowCount(PairId(p)) = lastDone[p].rows

\* A later run found nothing new for a pair that has stored bars.
C1_Witness ==
  \E p \in PairIdx :
     /\ "no_new_data" \in log[p]
     /\ lastDone[p].valid
     /\ lastDone[p].rows > 0
     /\ Len(history[p]) = lastDone[p].bars
     /\ RowCount(PairId(p)) = lastDone[p].rows

\* C2. No duplicate opens: no two committed rows of a trading pair have the
\* same open_time, after any runs.
C2_NoDuplicateOpens ==
  \A r \in BagToSet(candlesticks) :
     /\ CopiesIn(r, candlesticks) = 1
     /\ \A q \in BagToSet(candlesticks) :
          (q.trading_pair_id = r.trading_pair_id /\ q.open_time = r.open_time)
            => q = r

\* A batch that repeats a stored bar was offered to the table and rejected.
C2_Witness ==
  /\ pc = "copied"
  /\ copy_result = "conflict"
  /\ RowCount(trading_pair_id) > 0

\* Two rows of one pair with no stored row of the pair between them.
Consecutive(r1, r2) ==
  /\ r1.trading_pair_id = r2.trading_pair_id
  /\ r1.open_time < r2.open_time
  /\ ~ \E r3 \in BagToSet(candlesticks) :
         /\ r3.trading_pair_id = r1.trading_pair_id
         /\ r1.open_time < r3.open_time
         /\ r3.open_time < r2.open_time

\* C3. Gap-free contiguity: when the exchange history of a pair is
\* contiguous, consecutive stored bars of the pair satisfy
\* close_time(bar_i) + 1 = open_time(bar_i+1), across resumed runs.
C3_GapFree ==
  \A p \in PairIdx :
     Contiguous(p) =>
       \A r1, r2 \in Stored(p) :
          Consecutive(r1, r2) => r1.close_time + 1 = r2.open_time

\* A resumed run (its fetch started right after a stored bar) has committed
\* new bars next to the stored ones.
C3_Witness ==
  /\ pc = "copied"
  /\ copy_result = "ok"
  /\ Contiguous(i)
  /\ \E r \in Stored(i) : fetch_start = r.close_time + 1
  /\ RowCount(trading_pair_id) >= 3

\* C4. Resume point: the start timestamp passed to the fetch is the maximum
\* stored close_time of the pair + 1 whenever a bar is stored, for every
\* non-negative close_time, and the configured start date when none is.
C4_ResumePoint ==
  (pc = "fetch" /\ requests = << >>) =>
     LET closes == {r.close_time : r \in RowsOf(trading_pair_id)}
     IN fetch_start =
          IF closes # {}
          THEN (CHOOSE c \in closes : \A d \in closes : d <= c) + 1
          ELSE date_to_milliseconds(Pairs[i].start_date)

\* C5. Fetch completeness: for a contiguous history and an exchange that
\* serves the bars at or after the start, get_klines returns normally and
\* its result is exactly the bars that open at or after the start timestamp.
C5_FetchComplete ==
  (FetchEnded /\ Contiguous(i) /\ ~pre_listing_empty) =>
     /\ pc = "returned"
     /\ output_data = BarsFrom(i, fetch_start)

\* C6. Listing probe: when the start lies k interval widths before the first
\* bar and the exchange answers the k probes before it with empty pages,
\* get_klines makes k + 1 requests, each one interval width after the
\* previous one, and its output holds the first non-empty page.
C6_ListingProbe ==
  (/\ FetchEnded
   /\ pre_listing_empty
   /\ history[i] # << >>
   /\ fetch_start < history[i][1].open_time
   /\ (history[i][1].open_time - fetch_start) % timeframe(i) = 0) =>
     LET k == (history[i][1].open_time - fetch_start) \div timeframe(i)
     IN /\ Len(requests) >= k + 1
        /\ \A j \in 1..(k + 1) :
             requests[j].startTime = fetch_start + (j - 1) * timeframe(i)
        /\ Prefix(output_data, PageLimit) = Prefix(history[i], PageLimit)

\* C7. Fetch termination: the loop ends by returning (it does not raise),
\* and its last request is the first one whose page is shorter than the
\* page limit.
C7_FetchTerminates ==
  FetchEnded =>
     /\ pc = "returned"
     /\ requests # << >>
     /\ Last(requests).n < PageLimit
     /\ \A j \in 1..(Len(requests) - 1) : requests[j].n = PageLimit

\* C8. Conflict-free append: an append whose batch holds a bar already
\* stored under the same (trading_pair_id, open_time) raises no failure
\* and stores every other bar of the batch.
C8_ConflictFreeAppend ==
  (pc = "copied" /\ copy_result = "conflict") =>
     /\ "copy_error" \notin log[i]
     /\ \A k \in 1..Len(df_klines) : BagIn(df_klines[k], candlesticks)

\* C9. All-or-nothing append: from the failure of an append to the end of
\* its handling, the committed candlesticks stay what they were before the
\* append started.
C9_AllOrNothing ==
  [][((pc = "returned" /\ pc' = "copy_failed") \/ pc = "copy_failed")
       => candlesticks' = candlesticks]_vars

\* An append failed after it had written rows, and none of its rows is stored.
C9_Witness ==
  /\ pc = "copied"
  /\ copy_result = "store_failure"
  /\ Len(df_klines) >= 2
  /\ \A k \in 1..Len(df_klines) : ~BagIn(df_klines[k], candlesticks)

\* C10. Failure reporting: a pair whose bulk append failed in a run is not
\* reported as successfully processed in that run.
C10_FailureReported ==
  \A p \in PairIdx : "copy_error" \in log[p] => "processed" \notin log[p]

\* C11. Per-pair failure isolation: a failure while one pair is processed
\* does not reach a later pair of the run: no pair fails in its get-or-create
\* because of the failed transaction an earlier pair left on the connection.
C11_FailureIsolation ==
  \A p \in PairIdx : "in_failed_transaction" \notin log[p]

\* C12. Source unavailable: a pair whose health check reports a status other
\* than 0 has nothing else happen for it in the run (no load started, no
\* failure, no report), the step that skips it writes no row to sources,
\* trading_pairs or candlesticks, and the run goes on with the next pair.
C12_SourceUnavailable ==
  [][/\ \A p \in PairIdx :
          "binance_unavailable" \in log'[p] => log'[p] = {"binance_unavailable"}
     /\ (pc = "status" /\ "binance_unavailable" \in log'[i]) =>
          /\ << sources, trading_pairs, candlesticks, pending >>'
               = << sources, trading_pairs, candlesticks, pending >>
          /\ requests' = << >>
          /\ IF i < Len(Pairs)
             THEN i' = i + 1 /\ pc' = "status"
             ELSE pc' = "idle"]_vars

\* The first pair was skipped as unavailable and the load of the second pair
\* has started.
C12_Witness ==
  /\ i = 2
  /\ log[1] = {"binance_unavailable"}
  /\ "loading" \in log[2]

\* C15. Sequential get-or-create is idempotent: the first call for a pair
\* returns the id of the row it stores, and a later call for the same
\* (symbol, interval, source name) returns that row's id and leaves sources
\* and trading_pairs as they were.
C15_GetOrCreateIdempotent ==
  [][(pc = "pair" /\ pc' = "last_close") =>
       /\ trading_pair_id' = PairId(i)'
       /\ PairId(i) # 0 =>
            /\ trading_pair_id' = PairId(i)
            /\ sources' = sources
            /\ trading_pairs' = trading_pairs]_vars

\* A second call for a pair has returned: the pair was completed by an
\* earlier run and this run holds its id again.
C15_Witness ==
  /\ pc = "last_close"
  /\ lastDone[i].valid
  /\ trading_pair_id = PairId(i)
  /\ Cardinality(trading_pairs) = Len(Pairs)

\* C16. Available intervals are populated: between ingestion runs, every
\* interval that get_available_intervals_for_trading_pair returns for a
\* symbol has at least one stored bar for that symbol at that interval.
C16_AvailablePopulated ==
  pc = "idle" =>
    \A p \in PairIdx :
      LET available == get_available_intervals_for_trading_pair(
                         trading_pairs, Pairs[p].symbol)
      IN \A k \in 1..Len(available) :
           \E t \in trading_pairs :
             /\ t.symbol = Pairs[p].symbol
             /\ t.interval = available[k]
             /\ RowCount(t.id) > 0

\* Rows of trading_pairs for configured pair p under a source named name.
TripleRows(p, name) ==
  {t \in trading_pairs :
     /\ t.symbol = Pairs[p].symbol
     /\ t.interval = Pairs[p].interval
     /\ \E s \in sources : s.id = t.source_id /\ s.name = name}

\* C13. Concurrent get-or-create of a pair: when two callers have invoked
\* get_or_create_trading_pair for the same (symbol, interval, source name)
\* on a store without that pair and both calls have ended, trading_pairs
\* holds exactly one row for the triple and each caller returned its id.
C13_ConcurrentGetOrCreate ==
  (/\ \A c \in Callers : cpc[c] \in {"returned", "raised"}
   /\ carg[1] = carg[2])
  => /\ Cardinality(TripleRows(carg[1], source_name)) = 1
     /\ \A c \in Callers :
          /\ cpc[c] = "returned"
          /\ c_pair_id[c] \in {t.id : t \in TripleRows(carg[1], source_name)}

\* C14. Source never duplicated: whatever calls of get_or_create_source have
\* run, one after another or interleaved, sources holds at most one row per
\* source name.
C14_SourceNeverDuplicated ==
  \A s1, s2 \in sources : s1.name = s2.name => s1 = s2

\* An interval string as specified: one or more decimal digits followed by
\* one unit character from m, h, d, w, and nothing else.
WellFormed(s) ==
  /\ Len(s) >= 2
  /\ \A k \in 1..(Len(s) - 1) : IsDigit(s[k])
  /\ s[Len(s)] \in {"m", "h", "d", "w"}

\* The request has gone through search_suitable_interval.
Searched ==
  \/ api_pc \in {"data", "returned"}
  \/ /\ api_pc = "failed"
     /\ \/ api_error \in {"invalid_interval", "no_suitable_interval"}
        \/ Len(queries) = 2

\* The available intervals whose minute value is at most the target's.
Suitable ==
  {available_intervals[k] : k \in
     {j \in 1..Len(available_intervals) :
        interval_to_minutes(available_intervals[j])
          <= interval_to_minutes(target_interval)}}

\* C17. Selection rule: for a well-formed target and available intervals of
\* which at least one has a minute value at most the target's,
\* search_suitable_interval returns an available interval whose minute value
\* is the largest among those at most the target's.
C17_SelectionRule ==
  (Searched /\ WellFormed(target_interval) /\ Suitable # {}) =>
     /\ api_error \notin {"invalid_interval", "no_suitable_interval"}
     /\ chosen_interval \in Suitable
     /\ \A iv \in Suitable :
          interval_to_minutes(iv) <= interval_to_minutes(chosen_interval)

\* Available 1m, 5m and 1h with target 15m: 5m was chosen.
C17_Witness ==
  /\ api_pc = "data"
  /\ available_intervals = << << "1", "h" >>, << "1", "m" >>, << "5", "m" >> >>
  /\ target_interval = << "1", "5", "m" >>
  /\ chosen_interval = << "5", "m" >>

\* C18. No suitable interval: when no available interval has a minute value
\* at most the target's, an empty list included, the search fails with the
\* no-suitable-interval error and the request runs no candlestick query; an
\* interval that the search returns is never coarser than the target.
C18_NoSuitableInterval ==
  /\ (Searched /\ WellFormed(target_interval) /\ Suitable = {}) =>
        /\ api_pc = "failed"
        /\ api_error = "no_suitable_interval"
        /\ chosen_interval = None
        /\ queries = << "available_intervals" >>
  /\ chosen_interval # None =>
        interval_to_minutes(chosen_interval)
          <= interval_to_minutes(target_interval)

\* Only 1h is stored and 5m is asked for: the request failed with the
\* no-suitable-interval error.
C18_Witness ==
  /\ api_pc = "failed"
  /\ api_error = "no_suitable_interval"
  /\ available_intervals = << << "1", "h" >> >>
  /\ target_interval = << "5", "m" >>

\* C19. Malformed intervals are rejected: for every target string that is
\* not exactly digits followed by one unit character from m, h, d, w,
\* interval_to_minutes and build_time_bucket_part raise the invalid-interval
\* error, so that a request with such a target fails with that error in the
\* search.
C19_MalformedRejected ==
  (Searched /\ ~WellFormed(target_interval)) =>
     /\ interval_to_minutes(target_interval) = ValueError
     /\ build_time_bucket_part(target_interval) = << ValueError >>
     /\ api_pc = "failed"
     /\ api_error = "invalid_interval"

\* C20. Validation at the boundary: a request that fails with the
\* invalid-interval error has opened no store connection and has run no
\* store query.
C20_ValidationAtBoundary ==
  api_error = "invalid_interval" =>
     /\ conn_state = "none"
     /\ queries = << >>

\* C26. Tie-break: when several available intervals have the minute value of
\* the interval that search_suitable_interval returns, the returned one is
\* the lexicographically smallest of them.
C26_TieBreak ==
  (Searched /\ chosen_interval # None) =>
     \A k \in 1..Len(available_intervals) :
        interval_to_minutes(available_intervals[k])
            = interval_to_minutes(chosen_interval)
          => ~StrLess(available_intervals[k], chosen_interval)

\* C27. Even division: the width of the target is an exact integer multiple
\* of the width of the interval that search_suitable_interval returns.
C27_EvenDivision ==
  (Searched /\ chosen_interval # None) =>
     interval_to_minutes(target_interval)
       % interval_to_minutes(chosen_interval) = 0

\* C29. Query connection release: a request that has ended, with a result
\* or with any failure, has no store connection left open.
C29_ConnectionRelease ==
  api_pc \in {"returned", "failed"} => conn_state # "open"

\* C24. Failed fetch discards the run: when a fetch fails, also after earlier
\* pages of it succeeded, the stored candlesticks stay as they were through
\* the failure and its handling, and the handling makes no further kline
\* request for the pair: the run goes on with the next pair or ends.
C24_FailedFetchDiscards ==
  [][/\ (pc = "fetch" /\ pc' = "raised") =>
          /\ candlesticks' = candlesticks
          /\ pending' = pending
     /\ pc = "raised" =>
          /\ candlesticks' = candlesticks
          /\ pending' = pending
          /\ pc' # "fetch"
     /\ (pc = "raised" /\ pc' # "raised") =>
          /\ requests' = << >>
          /\ IF i < Len(Pairs) THEN i' = i + 1 ELSE pc' = "idle"]_vars

\* A page request failed after a full page of the same fetch had been
\* received, and the failure has been handled: nothing is stored for the pair.
C24_Witness ==
  /\ pc = "raised"
  /\ requests # << >>
  /\ Last(requests).n = PageLimit
  /\ Len(output_data) >= PageLimit
  /\ RowCount(trading_pair_id) = 0

\* C25. Rate-limit pacing: within one fetch the loop sleeps between the n-th
\* and the (n+1)-th request exactly when n is a positive multiple of 3, and
\* never after the last request; each step makes at most one request.
C25_RateLimitPacing ==
  /\ \A n \in 1..Len(requests) :
       requests[n].sleep <=>
         /\ n % 3 = 0
         /\ n < Len(requests) \/ pc = "fetch"
  /\ idx <= Len(requests)

\* The loop slept after the third request and made a fourth one.
C25_Witness ==
  /\ Len(requests) >= 4
  /\ requests[3].sleep

\* C28. JSON-file variant resumes incrementally: when an earlier run has
\* saved bars for a pair with save_to_json, the next load for the pair
\* starts at the close time of the last saved bar + 1.
C28_JsonResume ==
  \A f \in files :
     (/\ jpc = "fetch"
      /\ f.path.symbol = Pairs[jpair].symbol
      /\ f.path.interval = Pairs[jpair].interval
      /\ f.content # << >>)
     => jstart_ts = Last(f.content).close_time + 1


\* The stored bars that an aggregation of the requested symbol at the chosen
\* interval is about.
BarsOfChosen ==
  {r \in BagToSet(candlesticks) :
     \E t \in trading_pairs : /\ t.id = r.trading_pair_id
                              /\ t.symbol = path_symbol
                              /\ t.interval = chosen_interval}

\* The width of the requested target interval in milliseconds.
TargetWidth == interval_to_minutes(target_interval) * 60000

\* The bars of the window of one returned bar.
BarsIn(bar) ==
  {r \in BarsOfChosen : /\ bar.open_time <= r.open_time
                        /\ r.open_time < bar.open_time + TargetWidth}

RECURSIVE Total(_, _)
Total(rows, column) ==
  IF rows = {} THEN 0
  ELSE LET r == CHOOSE x \in rows : TRUE
       IN r[column] + Total(rows \ {r}, column)

\* C21: every bar of a returned aggregation has the open of an earliest and
\* the close of a latest stored bar of its window, the greatest high, the
\* least low, and the sums of the volumes and of the trade counts of the
\* stored bars of its window.
C21_RollUp ==
  api_pc = "returned" =>
    \A k \in 1..Len(data) :
      LET bar  == data[k]
          rows == BarsIn(bar)
      IN /\ rows # {}
         /\ \E r \in rows : /\ \A q \in rows : r.open_time <= q.open_time
                            /\ bar.open = r.open
         /\ \E r \in rows : /\ \A q \in rows : r.open_time >= q.open_time
                            /\ bar.close = r.close
         /\ \E r \in rows : bar.high = r.high
         /\ \A r \in rows : bar.high >= r.high
         /\ \E r \in rows : bar.low = r.low
         /\ \A r \in rows : bar.low <= r.low
         /\ bar.volume = Total(rows, "volume")
         /\ bar.number_of_trades = Total(rows, "number_of_trades")

\* Five 1m bars with closes 10, 11, 9, 12, 10 and volume 1 each, alone in the
\* store, were rolled up into one 5m bar.
C21_Witness ==
  /\ api_pc = "returned"
  /\ target_interval = << "5", "m" >>
  /\ Cardinality(trading_pairs) = 1
  /\ Cardinality(BarsOfChosen) = 5
  /\ Len(data) = 1
  /\ data[1].open = 10
  /\ data[1].close = 10
  /\ data[1].high = 12
  /\ data[1].low = 9
  /\ data[1].volume = 5
  /\ data[1].number_of_trades = 15


\* C22: after an aggregation every stored bar of the chosen interval is in
\* the returned bar that starts at floor(open_time / width) * width, the
\* width being that of the target interval in milliseconds.
C22_BucketAlignment ==
  api_pc = "returned" =>
    \A r \in BarsOfChosen :
      \E k \in 1..Len(data) :
        data[k].open_time = (r.open_time \div TargetWidth) * TargetWidth


\* C23: a returned aggregation has a bar only for a window of the target
\* width that holds a stored bar of the chosen interval, every such stored
\* bar is in the window of exactly one returned bar, the windows of the
\* returned bars follow each other in strictly ascending order without
\* overlap, and a store without such bars gives the empty list.
C23_OutputShape ==
  api_pc = "returned" =>
    /\ \A k \in 1..Len(data) : BarsIn(data[k]) # {}
    /\ \A r \in BarsOfChosen :
         Cardinality({k \in 1..Len(data) : r \in BarsIn(data[k])}) = 1
    /\ \A k \in 1..(Len(data) - 1) :
         data[k].open_time + TargetWidth <= data[k + 1].open_time
    /\ BarsOfChosen = {} => data = << >>

\* An aggregation returned two bars whose windows have an empty window
\* between them, for which there is no bar.
C23_Witness ==
  /\ api_pc = "returned"
  /\ Len(data) = 2
  /\ data[1].open_time + 2 * TargetWidth <= data[2].open_time
  /\ \A r \in BarsOfChosen : r \in BarsIn(data[1]) \cup BarsIn(data[2])


\* C30: the stored bars that contribute to one bar of a returned
\* aggregation all belong to one trading pair.
C30_OnePairOnly ==
  api_pc = "returned" =>
    \A k \in 1..Len(data) :
      \A r, q \in BarsIn(data[k]) : r.trading_pair_id = q.trading_pair_id

=============================================================================
